---- MODULE Spec2Model ----
(***************************************************************************)
(* celery.utils.functional: the replaying wrapper _regen (built by regen), *)
(* first / evaluate_promises, and the memoized lazy value mlazy.           *)
(*                                                                         *)
(* A Python object is modelled as a record [kind, val]:                    *)
(*   kind = "plain"   the object val itself (val = 0 is Python's None),    *)
(*   kind = "promise" a vine.promise whose call returns the object val,    *)
(*   kind = "lazy"    a kombu lazy or an mlazy whose evaluate() returns val.  *)
(***************************************************************************)
EXTENDS Integers, Sequences, FiniteSets

\* ---------------------------------------------------------------- bounds
MaxLen == 3         \* longest one-shot source
MaxVal == 1         \* plain values are 0..MaxVal, 0 standing for None
MinIdx == 2         \* negative subscripts tried: -MinIdx .. -1
NumHandles == 2     \* mlazy objects
MaxCalls == 4       \* evaluate() calls made on one mlazy object
MaxWarnCalls == 7   \* calls of deprecated functions

Vals == 0..MaxVal
Plain(v) == [kind |-> "plain", val |-> v]
Promise(v) == [kind |-> "promise", val |-> v]
None == Plain(0)
PlainElems == {Plain(v) : v \in Vals}
Elems == PlainElems \cup {Promise(v) : v \in Vals}
Lazy(v) == [kind |-> "lazy", val |-> v]
AllElems == Elems \cup {Lazy(v) : v \in Vals}
Trav == {1, 2}      \* the two traversals (chain iterators) that may be alive
Handles == 1..NumHandles
SeqsUpTo(S, n) == UNION {[1..k -> S] : k \in 0..n}

\* A predicate handed to first: none = TRUE is `predicate is None`, otherwise
\* the predicate is truthy exactly on the plain values in truth.
NoPred == [none |-> TRUE, truth |-> {}]
Preds == {NoPred} \cup {[none |-> FALSE, truth |-> S] : S \in SUBSET Vals}

VARIABLES
  Src,        \* the elements the wrapped one-shot iterator yields, in order
  it,         \* _regen.__it: how many elements the iterator has yielded so far
  index,      \* _regen.__index
  consumed,   \* _regen.__consumed
  iters,      \* the chain iterators handed out by __iter__, per traversal
  last,       \* the last operation on the wrapper, its arguments and outcome
  overlap,    \* TRUE once a traversal was started while another was running
  gen,        \* the one-shot source: a generator or another iterator, the pull
              \* at which it raises (0: never), and whether it has raised
  argType,    \* the type of the iterable handed to regen
  ret,        \* what regen returned: its argument itself or a _regen ("none": not called)
  items,      \* the iterable handed to uniq
  upos,       \* how many of its elements uniq's generator has read
  seen,       \* uniq's set seen
  yielded,    \* what uniq's generator has yielded so far
  udone,      \* uniq's generator has raised StopIteration
  events,     \* what calls of a deprecated function did, in order
  evaluated,  \* mlazy.evaluated, per handle
  value,      \* mlazy._value, per handle
  calls,      \* how often the wrapped computation of a handle has run
  log         \* the outcomes of the evaluate() calls of a handle, in order

regenVars == <<Src, it, index, consumed, iters, last, overlap, gen, argType, ret>>
lazyVars == <<evaluated, value, calls, log>>
uniqVars == <<items, upos, seen, yielded, udone>>
warnVars == <<events>>
vars == <<Src, it, index, consumed, iters, last, overlap, gen, argType, ret,
          evaluated, value, calls, log, items, upos, seen, yielded, udone, events>>

\* ------------------------------------------------------------ _regen
\* A generator that never raises.
Generator == [isGen |-> TRUE, errAt |-> 0, raised |-> FALSE]
NoIter == [stage |-> "none", idx |-> 0, out |-> <<>>]
\* fresh: the operation was the first one on the wrapper; afterFirst: it came
\* right after a first() that was the first operation on the wrapper.
NoOp == [op |-> "init", arg |-> 0, pred |-> NoPred, status |-> "none", val |-> None,
         fresh |-> FALSE, afterFirst |-> FALSE]
Op(name) == [NoOp EXCEPT !.op = name, !.fresh = (last.op = "init"),
                         !.afterFirst = (last.op = "first" /\ last.fresh)]

\* next(self.__it) with p elements yielded so far: the pull number gen.errAt
\* raises the first time it is made; a generator that has raised is finished,
\* another iterator yields the element when asked again.
Fails(p) == gen.errAt = p + 1 /\ ~gen.raised
Exhausted(p) == (gen.isGen /\ gen.raised) \/ p >= Len(Src)

\* The source after an operation that a pull made fail, or did not.
Raised(g, failed) == IF failed THEN [g EXCEPT !.raised = TRUE] ELSE g

\* The body of `for i in range(start, stop): consumed.append(next(it))`:
\* k iterations left, p elements already taken from the iterator.
RECURSIVE PullLoop(_, _, _)
PullLoop(cons, p, k) ==
  IF k <= 0 THEN [consumed |-> cons, it |-> p, stopped |-> FALSE, failed |-> FALSE]
  ELSE IF Fails(p)
    THEN [consumed |-> cons, it |-> p, stopped |-> FALSE, failed |-> TRUE]
  ELSE IF Exhausted(p)
    THEN [consumed |-> cons, it |-> p, stopped |-> TRUE, failed |-> FALSE]
  ELSE PullLoop(Append(cons, Src[p + 1]), p + 1, k - 1)

\* list(self.__it): pulls until the iterator stops; acc is the list built so far,
\* which is dropped when a pull raises.
RECURSIVE Drain(_, _)
Drain(acc, p) ==
  IF Fails(p) THEN [items |-> <<>>, it |-> p, failed |-> TRUE]
  ELSE IF Exhausted(p) THEN [items |-> acc, it |-> p, failed |-> FALSE]
  ELSE Drain(Append(acc, Src[p + 1]), p + 1)

\* What list(self.__it) returns: everything the iterator still has.
Rest(p) == Drain(<<>>, p).items

\* A data that assigns the drained list to the cache.
DataReplacing(cons, p) ==
  LET d == Drain(<<>>, p)
  IN [consumed |-> IF d.failed THEN cons ELSE d.items, it |-> d.it, failed |-> d.failed]

\* _regen.data: the cache is extended once list() has returned; the list
\* returned is __consumed itself.
Data(cons, p) ==
  LET d == Drain(<<>>, p)
  IN [consumed |-> cons \o d.items, it |-> d.it, failed |-> d.failed]

\* Python's list subscript with a negative index.
NegSubscript(lst, i) ==
  IF Len(lst) + i >= 0
    THEN [status |-> "value", val |-> lst[Len(lst) + i + 1]]
    ELSE [status |-> "IndexError", val |-> None]

\* Python's subscript of a list or tuple.
ListSubscript(lst, i) ==
  IF i < 0 THEN NegSubscript(lst, i)
  ELSE IF i < Len(lst) THEN [status |-> "value", val |-> lst[i + 1]]
  ELSE [status |-> "IndexError", val |-> None]

\* self.data[index] for a negative index.
GetItemNeg(cons, p, i) ==
  LET d == Data(cons, p)
      r == NegSubscript(d.consumed, i)
  IN IF d.failed
       THEN [consumed |-> d.consumed, it |-> d.it, status |-> "Error", val |-> None,
             failed |-> TRUE]
       ELSE [consumed |-> d.consumed, it |-> d.it, status |-> r.status, val |-> r.val,
             failed |-> FALSE]

\* The outcome of the pull loop r of __getitem__(i).
AfterPull(r, i) ==
  IF r.failed
    THEN [consumed |-> r.consumed, it |-> r.it, status |-> "Error", val |-> None,
          failed |-> TRUE]
  ELSE IF r.stopped
    THEN [consumed |-> r.consumed, it |-> r.it, status |-> "IndexError", val |-> None,
          failed |-> FALSE]
  ELSE [consumed |-> r.consumed, it |-> r.it, status |-> "value",
        val |-> r.consumed[i + 1], failed |-> FALSE]

\* A __getitem__ that answers None where the iterator runs out before index i.
GetItemDefault(cons, p, start, i) ==
  IF i < 0 THEN GetItemNeg(cons, p, i)
  ELSE IF i < Len(cons)
    THEN [consumed |-> cons, it |-> p, status |-> "value", val |-> cons[i + 1],
          failed |-> FALSE]
  ELSE LET r == PullLoop(cons, p, (i + 1) - start)
       IN IF r.stopped
            THEN [consumed |-> r.consumed, it |-> r.it, status |-> "value",
                  val |-> None, failed |-> FALSE]
            ELSE AfterPull(r, i)

\* A __getitem__ without the look into the cache: it always runs the pull loop.
GetItemAlwaysPull(cons, p, start, i) ==
  IF i < 0 THEN GetItemNeg(cons, p, i)
  ELSE AfterPull(PullLoop(cons, p, (i + 1) - start), i)

\* _regen.__getitem__(i); start is self.__index.
GetItem(cons, p, start, i) ==
  IF i < 0 THEN GetItemNeg(cons, p, i)
  ELSE IF i < Len(cons)
    THEN [consumed |-> cons, it |-> p, status |-> "value", val |-> cons[i + 1],
          failed |-> FALSE]
  ELSE AfterPull(PullLoop(cons, p, (i + 1) - start), i)

\* g[i]
Index(i) ==
  LET r == GetItem(consumed, it, index, i)
  IN /\ consumed' = r.consumed
     /\ it' = r.it
     /\ gen' = Raised(gen, r.failed)
     /\ last' = [Op("index") EXCEPT !.arg = i, !.status = r.status,
                             !.val = r.val]
     /\ UNCHANGED <<Src, index, iters, overlap, argType, ret>>
     /\ UNCHANGED <<lazyVars, uniqVars, warnVars>>

\* g.data
Materialize ==
  LET d == Data(consumed, it)
  IN /\ consumed' = d.consumed
     /\ it' = d.it
     /\ gen' = Raised(gen, d.failed)
     /\ last' = [Op("data") EXCEPT !.status = IF d.failed THEN "Error" ELSE "list"]
     /\ UNCHANGED <<Src, index, iters, overlap, argType, ret>>
     /\ UNCHANGED <<lazyVars, uniqVars, warnVars>>

\* g.__length_hint__(): self.__it.__length_hint__(), which a generator does not
\* have; another iterator answers with the number of elements it still has.
LengthHint ==
  /\ last' = IF gen.isGen
               THEN [Op("length_hint") EXCEPT !.status = "AttributeError"]
               ELSE [Op("length_hint") EXCEPT !.status = "value",
                                              !.arg = Len(Src) - it]
  /\ UNCHANGED <<Src, it, index, consumed, iters, overlap, gen, argType, ret>>
  /\ UNCHANGED <<lazyVars, uniqVars, warnVars>>

Running(t) == iters[t].stage \in {"consumed", "it"}

\* iter(g): chain(self.__consumed, self.__it), nothing is read yet.
IterNew(t) ==
  /\ ~Running(t)
  /\ iters' = [iters EXCEPT ![t] = [stage |-> "consumed", idx |-> 0, out |-> <<>>]]
  /\ overlap' = (overlap \/ \E u \in Trav \ {t} : Running(u))
  /\ last' = [Op("iter") EXCEPT !.arg = t]
  /\ UNCHANGED <<Src, it, index, consumed, gen, argType, ret>>
  /\ UNCHANGED <<lazyVars, uniqVars, warnVars>>

\* One next() on a chain iterator c: the list iterator over __consumed reads the
\* live list; once it is past the end the chain moves on to __it for good.
ChainNext(c, cons, p) ==
  IF c.stage = "consumed" /\ c.idx < Len(cons)
    THEN [iter |-> [c EXCEPT !.idx = c.idx + 1], it |-> p,
          status |-> "value", val |-> cons[c.idx + 1]]
  ELSE IF Fails(p)
    THEN [iter |-> [c EXCEPT !.stage = "it"], it |-> p,
          status |-> "Error", val |-> None]
  ELSE IF Exhausted(p)
    THEN [iter |-> [c EXCEPT !.stage = "done"], it |-> p,
          status |-> "StopIteration", val |-> None]
  ELSE [iter |-> [c EXCEPT !.stage = "it"], it |-> p + 1,
        status |-> "value", val |-> Src[p + 1]]

\* next() on the iterator of traversal t; out collects what the traversal yielded.
IterNext(t) ==
  /\ Running(t)
  /\ LET r == ChainNext(iters[t], consumed, it)
     IN /\ iters' = [iters EXCEPT ![t] =
                       IF r.status = "value"
                         THEN [r.iter EXCEPT !.out = Append(r.iter.out, r.val)]
                         ELSE r.iter]
        /\ it' = r.it
        /\ gen' = Raised(gen, r.status = "Error")
        /\ last' = [Op("next") EXCEPT !.arg = t, !.status = r.status,
                                !.val = r.val]
  /\ UNCHANGED <<Src, index, consumed, overlap, argType, ret>>
  /\ UNCHANGED <<lazyVars, uniqVars, warnVars>>

\* ------------------------------------------------------------- regen
\* A regen that wraps whatever it is given.
RegenWrapAll(t) == "regen"

\* regen(it): `if isinstance(it, (list, tuple)): return it`, else `_regen(it)`.
RegenReturns(t) == IF t \in {"list", "tuple"} THEN "same" ELSE "regen"

\* g = regen(it); _regen.__init__ sets the fields and reads nothing.
Regen ==
  /\ ret = "none"
  /\ ret' = RegenReturns(argType)
  /\ index' = 0
  /\ consumed' = <<>>
  /\ last' = Op("regen")
  /\ UNCHANGED <<Src, it, iters, overlap, gen, argType>>
  /\ UNCHANGED <<lazyVars, uniqVars, warnVars>>

\* g[i] where regen returned the list or tuple itself (Src holds its elements).
SeqIndex(i) ==
  /\ ret = "same"
  /\ LET r == ListSubscript(Src, i)
     IN last' = [Op("index") EXCEPT !.arg = i, !.status = r.status, !.val = r.val]
  /\ UNCHANGED <<Src, it, index, consumed, iters, overlap, gen, argType, ret>>
  /\ UNCHANGED <<lazyVars, uniqVars, warnVars>>

\* ------------------------------------------- evaluate_promises, first
\* `if isinstance(value, promise): value = value()`
EvaluatePromise(e) == IF e.kind = "promise" THEN Plain(e.val) ELSE e

\* `predicate(v) if predicate is not None else v is not None`
Holds(pred, v) == IF pred.none THEN v # None ELSE v.val \in pred.truth

\* A first that builds the whole list of matches before it takes the first one.
FirstLoopEager(c, cons, p, pred) ==
  LET d == Drain(<<>>, p)
      seq == SubSeq(cons, c.idx + 1, Len(cons)) \o d.items
      hits == {j \in 1..Len(seq) : Holds(pred, EvaluatePromise(seq[j]))}
  IN [it |-> d.it,
      status |-> IF d.failed THEN "Error" ELSE "value",
      val |-> IF hits = {} \/ d.failed THEN None
              ELSE EvaluatePromise(seq[CHOOSE j \in hits : \A k \in hits : j <= k])]

\* A first that scans the sequence itself, not evaluate_promises of it.
RECURSIVE FirstLoopNoResolve(_, _, _, _)
FirstLoopNoResolve(c, cons, p, pred) ==
  LET r == ChainNext(c, cons, p)
  IN IF r.status = "StopIteration" THEN [it |-> r.it, status |-> "value", val |-> None]
     ELSE IF r.status = "Error" THEN [it |-> r.it, status |-> "Error", val |-> None]
     ELSE IF Holds(pred, r.val) THEN [it |-> r.it, status |-> "value", val |-> r.val]
     ELSE FirstLoopNoResolve(r.iter, cons, r.it, pred)

\* next((v for v in evaluate_promises(it) if ...), None) over the chain iterator c
RECURSIVE FirstLoop(_, _, _, _)
FirstLoop(c, cons, p, pred) ==
  LET r == ChainNext(c, cons, p)
  IN IF r.status = "StopIteration" THEN [it |-> r.it, status |-> "value", val |-> None]
     ELSE IF r.status = "Error" THEN [it |-> r.it, status |-> "Error", val |-> None]
     ELSE LET v == EvaluatePromise(r.val)
          IN IF Holds(pred, v) THEN [it |-> r.it, status |-> "value", val |-> v]
             ELSE FirstLoop(r.iter, cons, r.it, pred)

\* first(pred, g)
First(pred) ==
  LET r == FirstLoop([stage |-> "consumed", idx |-> 0, out |-> <<>>], consumed, it, pred)
  IN /\ it' = r.it
     /\ gen' = Raised(gen, r.status = "Error")
     /\ last' = [Op("first") EXCEPT !.pred = pred, !.status = r.status,
                             !.val = r.val]
     /\ UNCHANGED <<Src, index, consumed, iters, overlap, argType, ret>>
     /\ UNCHANGED <<lazyVars, uniqVars, warnVars>>

\* e = evaluate_promises(seq) for the list seq = Src: a generator, nothing is
\* read until the first next(e).
EvalNew(t) ==
  /\ iters[t].stage # "eval"
  /\ iters' = [iters EXCEPT ![t] = [stage |-> "eval", idx |-> 0, out |-> <<>>]]
  /\ last' = [Op("evaluate_promises") EXCEPT !.arg = t]
  /\ UNCHANGED <<Src, it, index, consumed, overlap, gen, argType, ret>>
  /\ UNCHANGED <<lazyVars, uniqVars, warnVars>>

\* next(e): one turn of `for value in it`, idx counts the elements read from seq.
EvalNext(t) ==
  /\ iters[t].stage = "eval"
  /\ LET c == iters[t]
     IN IF c.idx < Len(Src)
          THEN LET v == EvaluatePromise(Src[c.idx + 1])
               IN /\ iters' = [iters EXCEPT ![t] = [c EXCEPT !.idx = c.idx + 1,
                                                            !.out = Append(c.out, v)]]
                  /\ last' = [Op("next") EXCEPT !.arg = t, !.status = "value",
                                          !.val = v]
          ELSE /\ iters' = [iters EXCEPT ![t] = [c EXCEPT !.stage = "done"]]
               /\ last' = [Op("next") EXCEPT !.arg = t, !.status = "StopIteration"]
  /\ UNCHANGED <<Src, it, index, consumed, overlap, gen, argType, ret>>
  /\ UNCHANGED <<lazyVars, uniqVars, warnVars>>

\* -------------------------------------------------------------- uniq
\* A uniq whose generator never adds to seen.
RECURSIVE UniqScanNoAdd(_, _, _)
UniqScanNoAdd(lst, p, sn) ==
  IF p >= Len(lst)
    THEN [upos |-> p, seen |-> sn, status |-> "StopIteration", val |-> None]
  ELSE IF lst[p + 1] \notin sn
    THEN [upos |-> p + 1, seen |-> sn, status |-> "value", val |-> lst[p + 1]]
  ELSE UniqScanNoAdd(lst, p + 1, sn)

\* One next() on `(seen.add(obj) or obj for obj in it if obj not in seen)`, with
\* p elements of lst read and sn the set seen.
RECURSIVE UniqScan(_, _, _)
UniqScan(lst, p, sn) ==
  IF p >= Len(lst)
    THEN [upos |-> p, seen |-> sn, status |-> "StopIteration", val |-> None]
  ELSE IF lst[p + 1] \notin sn
    THEN [upos |-> p + 1, seen |-> sn \cup {lst[p + 1]}, status |-> "value",
          val |-> lst[p + 1]]
  ELSE UniqScan(lst, p + 1, sn)

\* next() on the generator uniq(items) returned
UniqNext ==
  /\ ~udone
  /\ LET r == UniqScan(items, upos, seen)
     IN /\ upos' = r.upos
        /\ seen' = r.seen
        /\ yielded' = IF r.status = "value" THEN Append(yielded, r.val) ELSE yielded
        /\ udone' = (r.status = "StopIteration")
  /\ UNCHANGED items
  /\ UNCHANGED <<regenVars, lazyVars, warnVars>>

\* -------------------------------------------------- deprecated.Callable
\* warn(): the warning class chosen for the deprecation argument dep, which is
\* "unset" (None) or "set" (a version).
WarnKind(dep) == IF dep # "unset" THEN "pending" ELSE "deprecation"

\* f(...) for f decorated with Callable(deprecation=dep): __inner calls warn, then
\* the function.
CallDeprecated(dep) ==
  /\ Len(events) < 2 * MaxWarnCalls
  /\ events' = events \o << [ev |-> "warn", dep |-> dep, kind |-> WarnKind(dep)],
                            [ev |-> "call", dep |-> dep, kind |-> "none"] >>
  /\ UNCHANGED <<regenVars, lazyVars, uniqVars>>

\* ------------------------------------------------------------- mlazy
\* What the wrapped computation does when it is run: fail, or return a value.
Outcomes == {[ok |-> FALSE, val |-> None]} \cup {[ok |-> TRUE, val |-> Plain(v)] : v \in Vals}

\* An evaluate() without the `if not self.evaluated` test.
MlazyEvaluateAlways(ev, val, o) ==
  IF o.ok
    THEN [evaluated |-> TRUE, value |-> o.val, ran |-> TRUE,
          status |-> "value", ret |-> o.val]
    ELSE [evaluated |-> ev, value |-> val, ran |-> TRUE,
          status |-> "raise", ret |-> None]

\* An evaluate() that sets the flag before it runs the computation.
MlazyEvaluateFlagFirst(ev, val, o) ==
  IF ~ev
    THEN IF o.ok
           THEN [evaluated |-> TRUE, value |-> o.val, ran |-> TRUE,
                 status |-> "value", ret |-> o.val]
           ELSE [evaluated |-> TRUE, value |-> val, ran |-> TRUE,
                 status |-> "raise", ret |-> None]
    ELSE [evaluated |-> ev, value |-> val, ran |-> FALSE,
          status |-> "value", ret |-> val]

\* mlazy.evaluate() with the fields ev, val; o is what super().evaluate() does
\* if it is called. ran tells whether it was called.
MlazyEvaluate(ev, val, o) ==
  IF ~ev
    THEN IF o.ok
           THEN [evaluated |-> TRUE, value |-> o.val, ran |-> TRUE,
                 status |-> "value", ret |-> o.val]
           ELSE [evaluated |-> ev, value |-> val, ran |-> TRUE,
                 status |-> "raise", ret |-> None]
    ELSE [evaluated |-> ev, value |-> val, ran |-> FALSE,
          status |-> "value", ret |-> val]

\* h.evaluate()
Evaluate(h) ==
  /\ Len(log[h]) < MaxCalls
  /\ \E o \in Outcomes :
       LET r == MlazyEvaluate(evaluated[h], value[h], o)
       IN /\ evaluated' = [evaluated EXCEPT ![h] = r.evaluated]
          /\ value' = [value EXCEPT ![h] = r.value]
          /\ calls' = [calls EXCEPT ![h] = @ + (IF r.ran THEN 1 ELSE 0)]
          /\ log' = [log EXCEPT ![h] = Append(@, [status |-> r.status, val |-> r.ret])]
  /\ UNCHANGED <<regenVars, uniqVars, warnVars>>

\* ------------------------------------------------------ specifications
InitRegen(E) ==
  /\ Src \in SeqsUpTo(E, MaxLen)
  /\ it = 0
  /\ index = 0
  /\ consumed = <<>>
  /\ iters = [t \in Trav |-> NoIter]
  /\ last = NoOp
  /\ overlap = FALSE
  /\ gen = Generator
  /\ argType = "iter"
  /\ ret = "regen"

InitLazy ==
  /\ evaluated = [h \in Handles |-> FALSE]
  /\ value = [h \in Handles |-> None]
  /\ calls = [h \in Handles |-> 0]
  /\ log = [h \in Handles |-> <<>>]

\* uniq and the deprecation helpers, not in use.
InitIdle ==
  /\ items = <<>>
  /\ upos = 0
  /\ seen = {}
  /\ yielded = <<>>
  /\ udone = FALSE
  /\ events = <<>>

Indices == (-MinIdx)..MaxLen

\* The predicates a scan is run with beside the other operations: none, one
\* that holds of nothing (the scan drains the source) and one that holds of
\* everything (the scan stops at the first element).
ScanPreds == {NoPred, [none |-> FALSE, truth |-> {}], [none |-> FALSE, truth |-> Vals]}

\* The wrapper under every operation, with one traversal at a time, stepped one
\* next() at a time.
Init == InitRegen(PlainElems) /\ InitLazy /\ InitIdle

Next ==
  \/ \E i \in Indices : Index(i)
  \/ Materialize
  \/ IterNew(1)
  \/ IterNext(1)
  \/ \E pred \in ScanPreds : First(pred)

Spec == Init /\ [][Next]_vars

\* The wrapper under non-negative subscripts only.
NextIndex == \E i \in 0..MaxLen : Index(i)

SpecIndex == Init /\ [][NextIndex]_vars

\* The wrapper under traversals only, two of them, in any interleaving.
NextIter ==
  \/ \E t \in Trav : IterNew(t)
  \/ \E t \in Trav : IterNext(t)

SpecIter == Init /\ [][NextIter]_vars

\* first over a wrapper whose source may hold promises, among data and the
\* subscripts of the first and of the last position, which leave a part of the
\* source or all of it in the cache.
InitFirst == InitRegen(Elems) /\ InitLazy /\ InitIdle

NextFirst ==
  \/ \E pred \in Preds : First(pred)
  \/ \E i \in {0, MaxLen - 1} : Index(i)
  \/ Materialize

SpecFirst == InitFirst /\ [][NextFirst]_vars

\* regen called on a list, a tuple or a generator, then subscripts of what it
\* returned.
InitRegenCall ==
  /\ Src \in SeqsUpTo(PlainElems, MaxLen)
  /\ argType \in {"list", "tuple", "iter"}
  /\ ret = "none"
  /\ it = 0
  /\ index = 0
  /\ consumed = <<>>
  /\ iters = [t \in Trav |-> NoIter]
  /\ last = NoOp
  /\ overlap = FALSE
  /\ gen = Generator
  /\ InitLazy
  /\ InitIdle

NextRegen ==
  \/ Regen
  \/ \E i \in Indices : SeqIndex(i)
  \/ \E i \in Indices : ret = "regen" /\ Index(i)

SpecRegen == InitRegenCall /\ [][NextRegen]_vars

\* uniq over a list, its generator stepped one next() at a time.
InitUniq ==
  /\ InitRegen({})
  /\ InitLazy
  /\ items \in SeqsUpTo(Elems, MaxLen)
  /\ upos = 0
  /\ seen = {}
  /\ yielded = <<>>
  /\ udone = FALSE
  /\ events = <<>>

NextUniq == UniqNext

SpecUniq == InitUniq /\ [][NextUniq]_vars

\* No wrapper, nothing called yet.
InitLazySpec == InitRegen({}) /\ InitLazy /\ InitIdle

\* Calls of functions decorated with deprecated.Callable.
NextWarn == \E dep \in {"unset", "set"} : CallDeprecated(dep)

SpecWarn == InitLazySpec /\ [][NextWarn]_vars

\* The source that counts 1, 2, ... (within the plain values) and has n elements.
Counting(n) == [j \in 1..n |-> Plain(j % (MaxVal + 1))]

\* The wrapper over a generator or another one-shot iterator that may raise at
\* one of its pulls, under subscripts, data, the length hint and one traversal.
InitSource ==
  /\ Src \in {Counting(n) : n \in 0..MaxLen}
  /\ gen \in {[isGen |-> b, errAt |-> e, raised |-> FALSE] :
               b \in BOOLEAN, e \in 0..Len(Src)}
  /\ it = 0
  /\ index = 0
  /\ consumed = <<>>
  /\ iters = [t \in Trav |-> NoIter]
  /\ last = NoOp
  /\ overlap = FALSE
  /\ argType = "iter"
  /\ ret = "regen"
  /\ InitLazy
  /\ InitIdle

NextSource ==
  \/ \E i \in Indices : Index(i)
  \/ Materialize
  \/ LengthHint
  \/ IterNew(1)
  \/ IterNext(1)

SpecSource == InitSource /\ [][NextSource]_vars

\* evaluate_promises over a list of plain objects, vine promises and lazy or
\* mlazy handles.
InitPromises ==
  /\ Src \in SeqsUpTo(AllElems, MaxLen)
  /\ gen = Generator
  /\ it = 0
  /\ index = 0
  /\ consumed = <<>>
  /\ iters = [t \in Trav |-> NoIter]
  /\ last = NoOp
  /\ overlap = FALSE
  /\ argType = "list"
  /\ ret = "none"
  /\ InitLazy
  /\ InitIdle

NextPromises ==
  \/ EvalNew(1)
  \/ EvalNext(1)

SpecPromises == InitPromises /\ [][NextPromises]_vars

\* mlazy handles.
NextLazy == \E h \in Handles : Evaluate(h)

SpecLazy == InitLazySpec /\ [][NextLazy]_vars

\* ------------------------------------------------------------- claims
IsPrefix(a, b) == Len(a) <= Len(b) /\ a = SubSeq(b, 1, Len(a))
Suffix(a, k) == SubSeq(a, Len(a) - k + 1, Len(a))

\* What a deferred element stands for, and whether an element qualifies for a
\* predicate, stated on the elements (not by the scan).
Resolved(e) == Plain(e.val)
Qualifies(pred, e) == IF pred.none THEN e.val # 0 ELSE e.val \in pred.truth
\* The position of the earliest qualifying element of seq, 0 if there is none.
FirstMatch(seq, pred) ==
  LET hits == {j \in 1..Len(seq) : Qualifies(pred, seq[j])}
  IN IF hits = {} THEN 0 ELSE CHOOSE j \in hits : \A k \in hits : j <= k

\* C1: two traversals of one wrapper, each run to completion and one after the
\* other, both yield the whole source e0..e(n-1) in order.
C1_ReplayTwice ==
  ~overlap => \A t \in Trav : iters[t].stage = "done" => iters[t].out = Src

\* C2: in every reachable state the cache holds, in order, the first
\* len(consumed) elements the source has produced.
C2_CacheIsSourcePrefix == IsPrefix(consumed, Src)

\* C3: under non-negative subscripts only, g[i] with 0 <= i < n returns e_i and
\* does not fail.
C3_IndexReturnsElement ==
  (last.op = "index" /\ 0 <= last.arg /\ last.arg < Len(Src))
    => (last.status = "value" /\ last.val = Src[last.arg + 1])

\* C4: g[i] with i >= n raises IndexError, on the first such call and on every
\* later one; it never returns a value.
C4_OutOfRangeRaises ==
  (last.op = "index" /\ last.arg >= Len(Src)) => last.status = "IndexError"

C4_Witness ==
  /\ last.op = "index" /\ last.arg >= Len(Src) /\ last.status = "IndexError"
  /\ ~last.fresh /\ Len(Src) >= 2 /\ it = Len(Src)

\* C5: g[-1] on a wrapped source of n >= 1 elements drains the source and returns
\* e(n-1), and leaves the cache equal to e0..e(n-1).
C5_LastMaterializes ==
  (last.op = "index" /\ last.arg = -1 /\ Len(Src) >= 1)
    => /\ last.status = "value" /\ last.val = Src[Len(Src)]
       /\ it = Len(Src)
       /\ consumed = Src

\* C6: g.data, after any earlier subscripts and traversal steps, returns the whole
\* source e0..e(n-1) with the source drained.
C6_MaterializeReturnsAll ==
  last.op = "data" => (it = Len(Src) /\ consumed = Src)

\* C7: once a handle is evaluated, the flag stays set, the cached value and the
\* invocation counter never change again, every further evaluate() returns the
\* cached value, and the counter is 1 when the first call succeeded.
C7_EvaluatedIsFinal ==
  [][\A h \in Handles :
       /\ evaluated[h] =>
            /\ evaluated'[h]
            /\ value'[h] = value[h]
            /\ calls'[h] = calls[h]
            /\ log'[h] # log[h]
                 => log'[h] = Append(log[h], [status |-> "value", val |-> value[h]])
       /\ (Len(log'[h]) >= 1 /\ log'[h][1].status = "value") => calls'[h] = 1]_vars

C7_Witness ==
  \E h \in Handles :
    /\ evaluated[h] /\ calls[h] = 1 /\ Len(log[h]) >= 3
    /\ \A j \in 1..Len(log[h]) : log[h][j] = [status |-> "value", val |-> value[h]]

\* C8: a failing evaluate() raises and leaves the handle unevaluated with nothing
\* cached; every call made while unevaluated runs the computation again, and the
\* flag is set exactly by the first call that succeeds, which returns and caches
\* its value.
C8_RetryUntilSuccess ==
  \A h \in Handles :
    LET ok == {j \in 1..Len(log[h]) : log[h][j].status = "value"}
    IN /\ evaluated[h] <=> ok # {}
       /\ ~evaluated[h] => (value[h] = None /\ calls[h] = Len(log[h]))
       /\ evaluated[h] =>
            LET f == CHOOSE j \in ok : \A k \in ok : j <= k
            IN calls[h] = f /\ value[h] = log[h][f].val

C8_Witness ==
  \E h \in Handles :
    /\ Len(log[h]) = 2
    /\ log[h][1].status = "raise" /\ log[h][2] = [status |-> "value", val |-> Plain(1)]
    /\ evaluated[h] /\ value[h] = Plain(1) /\ calls[h] = 2

\* C9: first on a fresh wrapper whose earliest match is at position m returns that
\* element with exactly m+1 elements pulled; data called next pulls exactly the
\* remaining elements e(m+1)..e(n-1) and the list it returns ends with them.
C9_FirstShortCircuits ==
  [][/\ (last'.op = "first" /\ last'.fresh /\ FirstMatch(Src, last'.pred) > 0)
          => /\ it' = FirstMatch(Src, last'.pred)
             /\ last'.val = Resolved(Src[FirstMatch(Src, last'.pred)])
     /\ (last.op = "first" /\ last.fresh /\ FirstMatch(Src, last.pred) > 0
           /\ last'.op = "data")
          => /\ it' = Len(Src)
             /\ Len(consumed') = Len(consumed) + (Len(Src) - it)
             /\ Suffix(consumed', Len(Src) - it)
                  = SubSeq(Src, FirstMatch(Src, last.pred) + 1, Len(Src))]_vars

C9_Witness ==
  /\ last.op = "data" /\ last.afterFirst
  /\ Len(Src) = 3 /\ Len(consumed) = 1 /\ consumed[1] = Src[3] /\ it = 3

\* C10: first returns the earliest element, promises resolved, for which the
\* predicate holds (without a predicate: that is not None), and None when no
\* element qualifies.
C10_FirstReturnsEarliest ==
  [][last'.op = "first" =>
       LET seq == consumed \o Rest(it)
           m == FirstMatch(seq, last'.pred)
       IN last'.val = IF m = 0 THEN None ELSE Resolved(seq[m])]_vars

C10_Witness ==
  /\ last.op = "first" /\ last.fresh /\ last.pred = NoPred
  /\ Len(Src) = 3 /\ Src[1] = None /\ Src[2] = Promise(0) /\ Src[3] = Promise(1)
  /\ last.val = Plain(1)

\* C11: two traversals started before either finishes, stepped in any order, each
\* yield the whole source e0..e(n-1) in order.
C11_InterleavedTraversals ==
  (overlap /\ \A t \in Trav : iters[t].stage = "done")
    => \A t \in Trav : iters[t].out = Src

\* C12: regen returns a list or tuple itself, so its subscripts are those of the
\* sequence and no source is pulled; anything else it wraps in a _regen with an
\* empty cache and a zero cursor that has pulled nothing.
C12_RegenPassesSequences ==
  /\ ret # "none" => (ret = "same" <=> argType \in {"list", "tuple"})
  /\ ret = "same" =>
       /\ it = 0 /\ consumed = <<>>
       /\ last.op = "index" =>
            /\ last.status = "value" <=> (-Len(Src) <= last.arg /\ last.arg < Len(Src))
            /\ (0 <= last.arg /\ last.arg < Len(Src)) => last.val = Src[last.arg + 1]
            /\ (-Len(Src) <= last.arg /\ last.arg < 0)
                 => last.val = Src[Len(Src) + last.arg + 1]
  /\ (last.op = "regen" /\ ret = "regen") => (it = 0 /\ index = 0 /\ consumed = <<>>)

C12_Witness ==
  /\ ret = "same" /\ argType = "tuple" /\ Len(Src) = 3 /\ Src[3] = Plain(1)
  /\ last.op = "index" /\ last.arg = 2 /\ last.val = Plain(1) /\ ~last.fresh

\* The positions of seq that hold an element for the first time, and the elements
\* at these positions in order.
FirstOccs(seq) == {p \in 1..Len(seq) : \A q \in 1..(p - 1) : seq[q] # seq[p]}
Distinct(seq) ==
  LET F == FirstOccs(seq)
  IN [j \in 1..Cardinality(F) |->
        seq[CHOOSE p \in F : Cardinality({q \in F : q <= p}) = j]]

\* C13: uniq yields each distinct element of its input exactly once, in the order
\* of first occurrence: what it has yielded is a prefix of that sequence at any
\* time and the whole of it once the generator is exhausted.
C13_UniqFirstOccurrences ==
  /\ IsPrefix(yielded, Distinct(items))
  /\ udone => yielded = Distinct(items)
  /\ \A j, k \in 1..Len(yielded) : yielded[j] = yielded[k] => j = k
  /\ udone => {yielded[j] : j \in 1..Len(yielded)} = {items[j] : j \in 1..Len(items)}

C13_Witness ==
  /\ udone /\ Len(items) = 3 /\ items[1] = items[3] /\ items[1] # items[2]
  /\ yielded = <<items[1], items[2]>>

\* C14: a call of a deprecated function emits exactly one warning, before the
\* function runs: a pending-deprecation warning when the deprecation version is
\* not set, a deprecation warning when it is set.
C14_WarningKind ==
  /\ Len(events) % 2 = 0
  /\ \A j \in 1..Len(events) :
       IF j % 2 = 1
         THEN /\ events[j].ev = "warn"
              /\ events[j].kind = "pending" <=> events[j].dep = "unset"
              /\ events[j].kind = "deprecation" <=> events[j].dep = "set"
         ELSE events[j].ev = "call" /\ events[j].dep = events[j - 1].dep

\* C15: the cursor __index always equals the number of cached elements, and a
\* subscript i at or beyond the cached part, on a source that still has the
\* elements up to position i, pulls exactly the missing i + 1 - cursor elements
\* and leaves i + 1 elements cached.
C15_CursorTracksCache ==
  [][/\ index' = Len(consumed')
     /\ (/\ last'.op = "index"
         /\ last'.arg >= Len(consumed)
         /\ Len(Src) - it >= (last'.arg + 1) - Len(consumed))
          => /\ it' - it = (last'.arg + 1) - Len(consumed)
             /\ Len(consumed') = last'.arg + 1]_vars

\* C16: a subscript 0 <= i < len(cache) returns consumed[i] and leaves the source
\* position, the cache and the cursor as they were.
C16_CachedSubscriptReadsCache ==
  [][(last'.op = "index" /\ 0 <= last'.arg /\ last'.arg < Len(consumed))
       => /\ last'.status = "value"
          /\ last'.val = consumed[last'.arg + 1]
          /\ it' = it /\ consumed' = consumed /\ index' = index /\ gen' = gen]_vars

C16_Witness ==
  /\ last.op = "index" /\ last.arg = 0 /\ last.status = "value"
  /\ Len(consumed) = 2 /\ it = 2 /\ Len(Src) = 3

\* C17: when a pull from the source raises during a subscript or data, the
\* error reaches the caller, the elements pulled before the failing pull are in
\* the cache behind what was cached before, and the iterator stands just before
\* the failing pull.
C17_FailedPullKeepsPulled ==
  [][(last'.op \in {"index", "data"} /\ last'.status = "Error")
       => /\ it' = gen.errAt - 1
          /\ consumed' = consumed \o SubSeq(Src, it + 1, it')]_vars

\* C18: evaluate_promises(seq) has yielded, after k elements read from seq, the
\* first k elements of seq in order, each promise and each lazy or mlazy handle
\* replaced by what it stands for, and it ends after Len(seq) elements.
C18_EvaluatePromisesResolves ==
  LET c == iters[1]
  IN c.stage \in {"eval", "done"}
       => /\ Len(c.out) = c.idx
          /\ \A j \in 1..Len(c.out) : c.out[j] = Resolved(Src[j])
          /\ c.stage = "done" => Len(c.out) = Len(Src)

\* C19: no operation on the wrapper (subscript, data, length hint, a traversal
\* step), failed or not, removes, reorders or overwrites a cached element: the
\* cache before the step is a prefix of the cache after it.
C19_CacheAppendOnly ==
  [][IsPrefix(consumed, consumed')]_vars

C19_Witness ==
  /\ last.op = "index" /\ last.status = "Error"
  /\ gen.raised /\ Len(consumed) >= 2
====
